---- MODULE Spec2Model ----
(***************************************************************************)
(* Model of edge_script/snapshot.py: the SSHDownloader session (connect    *)
(* with retries, close, execute_command, remote_file_exists,               *)
(* download_file) and the with-block of main() that drives it.             *)
(*                                                                         *)
(* The transport (paramiko / scp) and the remote host are the environment: *)
(* every call into them has its outcome drawn with \E.  The local          *)
(* filesystem calls (os.path.exists, getsize, remove) are taken to         *)
(* succeed.  Logging is not state, except the error close() logs.          *)
(***************************************************************************)
EXTENDS Integers, Sequences, FiniteSets

\* ----------------------------------------------------------------- bounds
\* max_retries is drawn from 0..MaxRetries
MaxRetries == 3
\* a client stops calling connect() once this many handles were created
MaxHandles == 2
\* file sizes are drawn from 0..MaxSize
MaxSize == 1

\* ------------------------------------------------------- program constants
\* self.ssh_client = None
None == 0
\* for side in ["left", "right"]
NumSides == 2
\* retry_delay: int = 5
RetryDelay == 5

Sides == 1..NumSides
Sizes == 0..MaxSize
\* what stdout.read().decode() may hold: "", " ", "ok", " ok "
Outputs == {<<>>, <<" ">>, <<"o", "k">>, <<" ", "o", "k", " ">>}

VARIABLES
    max_retries,   \* self.max_retries
    ssh_client,    \* self.ssh_client: None or the id of a handle
    handles,       \* every paramiko.SSHClient() made so far, by id:
                   \*   connected: its connect() succeeded
                   \*   closes:    how many times close() was called on it
    close_error,   \* the last close() logged "Error closing SSH connection"
    local,         \* the local file at each side's local_path
    pc,            \* position inside the running method, "idle" when none runs
    attempt,       \* the loop variable of the running method
    remote_size,   \* download_file's remote_size
    path,          \* download_file's local_path (a side)
    outcome,       \* how the last call ended: "none", "returned", "raised"
    ret,           \* what it returned
    call,          \* bookkeeping of the running (or last) call
    mpc,           \* position inside main(), "client" when main() does not drive
    side,          \* main's loop variable
    success,       \* main's success
    exc            \* an exception is propagating out of main's with-body

vars == <<max_retries, ssh_client, handles, close_error, local, pc, attempt,
          remote_size, path, outcome, ret, call, mpc, side, success, exc>>

session == <<ssh_client, handles, close_error>>
mainv == <<mpc, side, success, exc>>

\* ------------------------------------------------------------------ values
RetNone == [kind |-> "None", b |-> FALSE, s |-> <<>>]
RetBool(v) == [kind |-> "bool", b |-> v, s |-> <<>>]
RetStr(v) == [kind |-> "str", b |-> FALSE, s |-> v]

NoFile == [exists |-> FALSE, size |-> 0, verified |-> FALSE]
\* a file the transfer wrote, not (yet) verified
Written(n) == [exists |-> TRUE, size |-> n, verified |-> FALSE]

\* the bookkeeping of a call that starts now
NewCall(name) ==
    [op |-> name,
     base |-> Len(handles),  \* handles that existed before the call
     hist |-> <<>>,          \* how each attempt ended
     sleeps |-> 0,           \* time.sleep(self.retry_delay) calls
     slept |-> 0,            \* the seconds they slept in all
     stats |-> 0,            \* sftp.stat calls of download_file's loop
     transfers |-> 0,        \* scp.get calls
     opened |-> 0,           \* open_sftp() calls that gave a channel
     closed |-> 0,           \* sftp.close() calls
     precheck |-> "none",    \* remote_file_exists' answer: "none","true","false"
     rfe |-> "none",         \* what remote_file_exists met: "no_handle",
                             \* "open_fail", or what stat gave
     stat_attempt |-> 0,     \* the attempt whose stat set remote_size
     stderr |-> FALSE,       \* the stderr warning was logged
     out |-> <<>>]           \* stdout.read().decode() of the attempt that
                             \* ended with exit status 0

\* str.strip()
RECURSIVE LStrip(_)
LStrip(s) == IF s # <<>> /\ Head(s) = " " THEN LStrip(Tail(s)) ELSE s
RECURSIVE RStrip(_)
RStrip(s) ==
    IF s # <<>> /\ s[Len(s)] = " " THEN RStrip(SubSeq(s, 1, Len(s) - 1)) ELSE s
StripLeftOnly(s) == LStrip(s)

Strip(s) == RStrip(LStrip(s))

\* a handle is live from its creation until close() is called on it
Live == {h \in 1..Len(handles) : handles[h].closes = 0}
Connected == ssh_client # None /\ handles[ssh_client].connected

Init ==
    /\ max_retries \in 0..MaxRetries
    /\ ssh_client = None
    /\ handles = <<>>
    /\ close_error = FALSE
    /\ local = [p \in Sides |-> NoFile]
    /\ pc = "idle"
    /\ attempt = 0
    /\ remote_size = 0
    /\ path = 1
    /\ outcome = "none"
    /\ ret = RetNone
    /\ call = [NewCall("none") EXCEPT !.base = 0]
    /\ mpc \in {"client", "start"}
    /\ side = 0
    /\ success = TRUE
    /\ exc = FALSE

\* lines 68, 105, 162, 167, 172: the seconds slept after attempt a,
\* self.retry_delay
DelayGrows(a) == RetryDelay * a

Delay(a) == RetryDelay

\* time.sleep(self.retry_delay) is called
Sleep(c) == [c EXCEPT !.sleeps = @ + 1, !.slept = @ + Delay(attempt)]

\* a method ends
Finish(how, value) ==
    /\ pc' = "idle"
    /\ outcome' = how
    /\ ret' = value

\* the next iteration of "for attempt in range(1, self.max_retries + 1)", or
\* the statement after the loop once the range is exhausted
Loop(next, at, after) ==
    /\ attempt' = next
    /\ IF next <= max_retries
         THEN pc' = at /\ outcome' = "none" /\ ret' = RetNone
         ELSE Finish("returned", after)

\* ================================================================ close()
\* lines 71-80.  raises: self.ssh_client.close() raised
CloseSkipsFinally(raises) ==
    IF ssh_client # None
      THEN /\ handles' = [handles EXCEPT ![ssh_client].closes = @ + 1]
           /\ close_error' = raises
           /\ ssh_client' = IF raises THEN ssh_client ELSE None
      ELSE UNCHANGED session

DoClose(raises) ==
    IF ssh_client # None
      THEN /\ handles' = [handles EXCEPT ![ssh_client].closes = @ + 1]
           /\ close_error' = raises
           /\ ssh_client' = None
      ELSE UNCHANGED session

\* ============================================================== connect()
\* line 66: if attempt == self.max_retries
ConnectFinalAttemptLate == attempt = max_retries + 1

ConnectFinalAttempt == attempt = max_retries

\* line 46, entering the loop
BeginConnect ==
    /\ call' = NewCall("connect")
    /\ Loop(1, "connect_attempt", RetNone)

\* lines 47-68: one attempt, up to the return, the raise or the sleep
ConnectAttempt ==
    /\ pc = "connect_attempt"
    /\ \E ok \in BOOLEAN :
         /\ handles' = Append(handles, [connected |-> ok, closes |-> 0])
         /\ ssh_client' = Len(handles) + 1
         /\ IF ok
              THEN /\ call' = [call EXCEPT !.hist = Append(@, "ok")]
                   /\ Finish("returned", RetNone)
              ELSE IF ConnectFinalAttempt
                THEN /\ call' = [call EXCEPT !.hist = Append(@, "fail")]
                     /\ Finish("raised", RetNone)
                ELSE /\ call' = Sleep([call EXCEPT !.hist = Append(@, "fail")])
                     /\ pc' = "connect_sleep"
                     /\ UNCHANGED <<outcome, ret>>
    /\ UNCHANGED <<max_retries, close_error, local, attempt, remote_size, path,
                   mainv>>

\* lines 68-69: the sleep ends, self.close(), next iteration
ConnectRetry ==
    /\ pc = "connect_sleep"
    /\ \E raises \in BOOLEAN : DoClose(raises)
    /\ Loop(attempt + 1, "connect_attempt", RetNone)
    /\ UNCHANGED <<max_retries, local, remote_size, path, call, mainv>>

\* ====================================================== execute_command()
\* line 103: if attempt == self.max_retries
ExecFinalAttemptLate == attempt = max_retries + 1

ExecFinalAttempt == attempt = max_retries

\* line 84, entering the loop; falling out of it returns None
BeginExecute ==
    /\ call' = NewCall("execute_command")
    /\ Loop(1, "exec_attempt", RetNone)

\* line 100: return output if output else None
ExecResult(output) == IF output # <<>> THEN RetStr(output) ELSE RetNone

\* lines 85-105: one attempt.  how = "exc": exec_command or a read raised
\* (always so without a connected handle); otherwise the command ran and
\* gave status, stderr (err: not blank) and stdout (out)
ExecAttempt ==
    /\ pc = "exec_attempt"
    /\ \E how \in {"exc", "run"}, status \in {0, 1}, err \in BOOLEAN,
          out \in Outputs :
         LET ran == Connected /\ how = "run"
             kind == IF ~ran THEN "exc"
                     ELSE IF status # 0 THEN "nonzero" ELSE "ok"
             c == [call EXCEPT !.hist = Append(@, kind),
                               !.stderr = Connected /\ err,
                               !.out = IF kind = "ok" THEN out ELSE <<>>]
         IN  IF kind = "ok"
               THEN /\ call' = c
                    /\ Finish("returned", ExecResult(Strip(out)))
               ELSE IF ExecFinalAttempt
                 THEN /\ call' = c
                      /\ Finish("raised", RetNone)
                 ELSE /\ call' = Sleep(c)
                      /\ pc' = "exec_sleep"
                      /\ UNCHANGED <<outcome, ret>>
    /\ UNCHANGED <<max_retries, session, local, attempt, remote_size, path,
                   mainv>>

\* line 105: the sleep ends, next iteration
ExecRetry ==
    /\ pc = "exec_sleep"
    /\ Loop(attempt + 1, "exec_attempt", RetNone)
    /\ UNCHANGED <<max_retries, session, local, remote_size, path, call, mainv>>

\* =================================================== remote_file_exists()
\* what sftp.stat(remote_path).st_mode may say the entry is
Modes == {"reg", "dir", "fifo"}
\* what sftp.stat may do: give a mode, raise IOError (the path is missing, or
\* another I/O error), or raise an error that is no IOError
StatOutcomes == Modes \cup {"missing", "ioerror", "error"}

\* stat.S_ISREG
S_ISREG_NotDir(mode) == mode # "dir"

S_ISREG(mode) == mode = "reg"

\* lines 116-117: how many times the finally closes the channel after stat
\* ended with st
ClosesOnSuccessOnly(st) == IF st \in Modes THEN 1 ELSE 0

FinallyCloses(st) == 1

\* line 124: if not self.remote_file_exists(remote_path)
PrecheckNever(exists) == FALSE

PrecheckFails(exists) == ~exists

\* remote_file_exists returns exists, to its caller: the client, or
\* download_file at line 124 (lines 124-128)
RfeReturn(exists, c) ==
    /\ call' = [c EXCEPT !.precheck = IF exists THEN "true" ELSE "false"]
    /\ IF call.op = "remote_file_exists"
         THEN Finish("returned", RetBool(exists)) /\ UNCHANGED attempt
         ELSE IF PrecheckFails(exists)
           THEN Finish("returned", RetBool(FALSE)) /\ UNCHANGED attempt
           ELSE Loop(1, "dl_attempt", RetBool(FALSE))

BeginExists(name) ==
    /\ call' = NewCall(name)
    /\ pc' = "rfe_open"
    /\ outcome' = "none"
    /\ ret' = RetNone
    /\ UNCHANGED attempt

\* line 110: open_sftp(); it raises without a connected handle (lines 118-120)
RfeOpen ==
    /\ pc = "rfe_open"
    /\ \E ok \in BOOLEAN :
         IF Connected /\ ok
           THEN /\ call' = [call EXCEPT !.opened = @ + 1]
                /\ pc' = "rfe_stat"
                /\ UNCHANGED <<attempt, outcome, ret>>
           ELSE RfeReturn(FALSE,
                          [call EXCEPT !.rfe = IF ssh_client = None
                                                 THEN "no_handle"
                                                 ELSE "open_fail"])
    /\ UNCHANGED <<max_retries, session, local, remote_size, path, mainv>>

\* lines 111-120: stat gives a mode (line 113), raises IOError (lines
\* 114-115), or raises another error (lines 118-120); the finally closes the
\* channel
RfeStat ==
    /\ pc = "rfe_stat"
    /\ \E st \in StatOutcomes :
         RfeReturn(IF st \in Modes THEN S_ISREG(st) ELSE FALSE,
                   [call EXCEPT !.closed = @ + FinallyCloses(st), !.rfe = st])
    /\ UNCHANGED <<max_retries, session, local, remote_size, path, mainv>>

\* ======================================================== download_file()
BeginDownload(p) ==
    /\ path' = p
    /\ BeginExists("download_file")

\* lines 165, 170: if attempt == self.max_retries
DlNeverRaises == FALSE

DlFinalAttemptExcLate == attempt = max_retries + 1

DlFinalAttemptExc == attempt = max_retries

\* line 159: if attempt == self.max_retries
DlFinalAttemptVerify == attempt = max_retries

\* line 148: if local_size == remote_size
SizesAtLeast(local_size, remote) == local_size >= remote

SizesMatch(local_size, remote) == local_size = remote

\* lines 146-157: the local file f after verification: kept when good, removed
\* (line 155) when its size is wrong
VerifyLocalKeeps(f, good) == f

VerifyLocal(f, good) == IF good THEN [f EXCEPT !.verified = TRUE] ELSE NoFile

\* lines 163-172: an exception of kind ended the attempt
DlExcept(kind, c) ==
    IF DlFinalAttemptExc
      THEN /\ call' = [c EXCEPT !.hist = Append(@, kind)]
           /\ Finish("raised", RetNone)
      ELSE /\ call' = Sleep([c EXCEPT !.hist = Append(@, kind)])
           /\ pc' = "dl_sleep"
           /\ UNCHANGED <<outcome, ret>>

\* lines 135-137: open_sftp, stat, close.  r = -2: open_sftp raised (always so
\* without a connected handle); r = -1: stat raised; otherwise st_size
DlStat ==
    /\ pc = "dl_attempt"
    /\ \E r \in -2..MaxSize :
         IF ~Connected \/ r = -2
           THEN DlExcept("stat_exc", call) /\ UNCHANGED remote_size
           ELSE IF r = -1
             THEN /\ DlExcept("stat_exc", [call EXCEPT !.opened = @ + 1,
                                                        !.stats = @ + 1])
                  /\ UNCHANGED remote_size
             ELSE /\ call' = [call EXCEPT !.opened = @ + 1, !.stats = @ + 1,
                                          !.closed = @ + 1,
                                          !.stat_attempt = attempt]
                  /\ remote_size' = r
                  /\ pc' = "dl_transfer"
                  /\ UNCHANGED <<outcome, ret>>
    /\ UNCHANGED <<max_retries, session, local, attempt, path, mainv>>

\* lines 140-143: scp.get.  w: the size of what it wrote at local_path, -1
\* when it wrote nothing; how: it returned, raised SCPException (lines
\* 163-167), or raised another exception (lines 168-172, the same handling)
DlTransfer ==
    /\ pc = "dl_transfer"
    /\ \E how \in {"done", "SCPException", "Exception"}, w \in -1..MaxSize :
         /\ local' = IF w >= 0 THEN [local EXCEPT ![path] = Written(w)] ELSE local
         /\ LET c == [call EXCEPT !.transfers = @ + 1]
            IN  IF how = "done"
                  THEN /\ call' = c
                       /\ pc' = "dl_verify"
                       /\ UNCHANGED <<outcome, ret>>
                  ELSE DlExcept("xfer_exc", c)
    /\ UNCHANGED <<max_retries, session, attempt, remote_size, path, mainv>>

\* lines 146-162: verification, up to the return or the sleep
DlVerify ==
    /\ pc = "dl_verify"
    /\ LET f == local[path]
           good == f.exists /\ SizesMatch(f.size, remote_size)
           kind == IF good THEN "verified"
                   ELSE IF f.exists THEN "mismatch" ELSE "missing"
           c == [call EXCEPT !.hist = Append(@, kind)]
       IN  /\ local' = [local EXCEPT ![path] = VerifyLocal(f, good)]
           /\ IF good
                THEN call' = c /\ Finish("returned", RetBool(TRUE))
                ELSE IF DlFinalAttemptVerify
                  THEN call' = c /\ Finish("returned", RetBool(FALSE))
                  ELSE /\ call' = Sleep(c)
                       /\ pc' = "dl_sleep"
                       /\ UNCHANGED <<outcome, ret>>
    /\ UNCHANGED <<max_retries, session, attempt, remote_size, path, mainv>>

\* lines 162, 167, 172: the sleep ends, next iteration; line 174 after the loop
DlRetry ==
    /\ pc = "dl_sleep"
    /\ Loop(attempt + 1, "dl_attempt", RetBool(FALSE))
    /\ UNCHANGED <<max_retries, session, local, remote_size, path, call, mainv>>

\* ============================================================ the client
\* any caller of the session other than main(): calls in any order
ClientConnect ==
    /\ mpc = "client" /\ pc = "idle"
    /\ Len(handles) < MaxHandles
    /\ BeginConnect
    /\ UNCHANGED <<max_retries, session, local, remote_size, path, mainv>>

ClientClose ==
    /\ mpc = "client" /\ pc = "idle"
    /\ \E raises \in BOOLEAN : DoClose(raises)
    /\ call' = NewCall("close")
    /\ Finish("returned", RetNone)
    /\ UNCHANGED <<max_retries, local, attempt, remote_size, path, mainv>>

ClientExecute ==
    /\ mpc = "client" /\ pc = "idle"
    /\ BeginExecute
    /\ UNCHANGED <<max_retries, session, local, remote_size, path, mainv>>

ClientExists ==
    /\ mpc = "client" /\ pc = "idle"
    /\ BeginExists("remote_file_exists")
    /\ UNCHANGED <<max_retries, session, local, remote_size, path, mainv>>

ClientDownload ==
    /\ mpc = "client" /\ pc = "idle"
    /\ BeginDownload(1)
    /\ UNCHANGED <<max_retries, session, local, remote_size, mainv>>

\* ================================================================= main()
\* lines 199-206, __enter__ (lines 37-39): with SSHDownloader(...) connects
MainEnter ==
    /\ mpc = "start" /\ pc = "idle"
    /\ BeginConnect
    /\ mpc' = "enter"
    /\ UNCHANGED <<max_retries, session, local, remote_size, path, side,
                   success, exc>>

\* connect() raised inside __enter__: the body and __exit__ do not run, the
\* exception leaves main (lines 235-237)
MainConnectFailed ==
    /\ mpc = "enter" /\ pc = "idle" /\ outcome = "raised"
    /\ mpc' = "done"
    /\ exc' = TRUE
    /\ UNCHANGED <<max_retries, session, local, pc, attempt, remote_size, path,
                   outcome, ret, call, side, success>>

\* lines 209-211
MainExecute ==
    /\ mpc = "enter" /\ pc = "idle" /\ outcome = "returned"
    /\ BeginExecute
    /\ mpc' = "exec"
    /\ UNCHANGED <<max_retries, session, local, remote_size, path, side,
                   success, exc>>

\* lines 215-224, the first side
MainFirstDownload ==
    /\ mpc = "exec" /\ pc = "idle" /\ outcome = "returned"
    /\ success' = TRUE
    /\ side' = 1
    /\ BeginDownload(1)
    /\ mpc' = "dl"
    /\ UNCHANGED <<max_retries, session, local, remote_size, exc>>

\* lines 224-228 and the next iteration of line 216
MainNextDownload ==
    /\ mpc = "dl" /\ pc = "idle" /\ outcome = "returned"
    /\ side < NumSides
    /\ success' = (success /\ ret.b)
    /\ side' = side + 1
    /\ BeginDownload(side + 1)
    /\ UNCHANGED <<max_retries, session, local, remote_size, mpc, exc>>

\* lines 224-233 after the last side: the body ends
MainBodyDoneLastOnly ==
    /\ mpc = "dl" /\ pc = "idle" /\ outcome = "returned"
    /\ side = NumSides
    /\ success' = ret.b
    /\ mpc' = "exit"
    /\ UNCHANGED <<max_retries, session, local, pc, attempt, remote_size, path,
                   outcome, ret, call, side, exc>>

MainBodyDone ==
    /\ mpc = "dl" /\ pc = "idle" /\ outcome = "returned"
    /\ side = NumSides
    /\ success' = (success /\ ret.b)
    /\ mpc' = "exit"
    /\ UNCHANGED <<max_retries, session, local, pc, attempt, remote_size, path,
                   outcome, ret, call, side, exc>>

\* execute_command or download_file raised: the exception leaves the body
MainBodyRaised ==
    /\ mpc \in {"exec", "dl"} /\ pc = "idle" /\ outcome = "raised"
    /\ exc' = TRUE
    /\ mpc' = "exit"
    /\ UNCHANGED <<max_retries, session, local, pc, attempt, remote_size, path,
                   outcome, ret, call, side, success>>

\* __exit__ (lines 41-42), then main returns or re-raises (lines 235-237)
MainExitSkipsOnError ==
    /\ mpc = "exit"
    /\ IF exc THEN UNCHANGED session ELSE \E raises \in BOOLEAN : DoClose(raises)
    /\ mpc' = "done"
    /\ UNCHANGED <<max_retries, local, pc, attempt, remote_size, path, outcome,
                   ret, call, side, success, exc>>

MainExit ==
    /\ mpc = "exit"
    /\ \E raises \in BOOLEAN : DoClose(raises)
    /\ mpc' = "done"
    /\ UNCHANGED <<max_retries, local, pc, attempt, remote_size, path, outcome,
                   ret, call, side, success, exc>>

Next ==
    \/ ConnectAttempt
    \/ ConnectRetry
    \/ ExecAttempt
    \/ ExecRetry
    \/ RfeOpen
    \/ RfeStat
    \/ DlStat
    \/ DlTransfer
    \/ DlVerify
    \/ DlRetry
    \/ ClientConnect
    \/ ClientClose
    \/ ClientExecute
    \/ ClientExists
    \/ ClientDownload
    \/ MainEnter
    \/ MainConnectFailed
    \/ MainExecute
    \/ MainFirstDownload
    \/ MainNextDownload
    \/ MainBodyDone
    \/ MainBodyRaised
    \/ MainExit

Spec == Init /\ [][Next]_vars

\* ================================================================ claims
AttemptsMade == Len(handles) - call.base
Ended(name) == call.op = name /\ pc = "idle"
AllHist(kind) == \A i \in 1..Len(call.hist) : call.hist[i] = kind
Failed == outcome = "raised" \/ (outcome = "returned" /\ ret = RetBool(FALSE))

\* C1: with max_retries = N >= 1, connect() never makes more than N attempts;
\* it returns after exactly k attempts, Connected, when attempt k is the first
\* to succeed, and raises after exactly N attempts when all N failed
C1_ConnectAttempts ==
    (call.op = "connect" /\ max_retries >= 1) =>
        /\ AttemptsMade <= max_retries
        /\ Len(call.hist) = AttemptsMade
        /\ \A i \in 1..(AttemptsMade - 1) : call.hist[i] = "fail"
        /\ pc = "idle" =>
             /\ outcome \in {"returned", "raised"}
             /\ AttemptsMade >= 1
             /\ outcome = "returned" =>
                  call.hist[AttemptsMade] = "ok" /\ Connected
             /\ outcome = "raised" =>
                  call.hist[AttemptsMade] = "fail" /\ AttemptsMade = max_retries

\* max_retries = 3, connect fails twice then succeeds: 3 attempts, Connected
C1_Witness ==
    /\ Ended("connect") /\ max_retries = 3 /\ outcome = "returned"
    /\ call.hist = <<"fail", "fail", "ok">>
    /\ AttemptsMade = 3 /\ Connected

\* C2: at most one handle created by the session is live (created and not yet
\* closed) in every reachable state
C2_AtMostOneLive == Cardinality(Live) <= 1

\* C3: when connect() raises after exhausting its retries, the session holds
\* no handle and every handle this connect() opened has been closed
C3_RaiseLeavesDisconnected ==
    (Ended("connect") /\ outcome = "raised") =>
        /\ ssh_client = None
        /\ \A h \in (call.base + 1)..Len(handles) : handles[h].closes >= 1

\* C4: close() never raises and leaves the session Disconnected, whether or
\* not a handle was held and whether or not its shutdown raised; a close()
\* right after a close() changes nothing
C4_AfterClose ==
    Ended("close") => (outcome = "returned" /\ ssh_client = None)

C4_SecondClose ==
    (Ended("close") /\ call'.op = "close") =>
        (handles' = handles /\ ssh_client' = None /\ outcome' = "returned")

C4_CloseSafe == []C4_AfterClose /\ [][C4_SecondClose]_vars

\* a close() whose shutdown raised, then a connect() that reached Connected
C4_Witness ==
    /\ mpc = "client" /\ max_retries = 1 /\ Len(handles) = 2
    /\ handles[1].connected /\ handles[1].closes = 1 /\ close_error
    /\ Ended("connect") /\ outcome = "returned" /\ ssh_client = 2 /\ Connected

\* C5: when main's with-block was entered and has ended, on any exit path,
\* every handle the session made was closed exactly once (so close() ran once
\* for the successful connect()), the session is Disconnected and no handle is
\* live
ScopeEntered == mpc \in {"exec", "dl", "exit", "done"}

C5_ScopedClose ==
    (mpc = "done" /\ ScopeEntered /\ call.op # "connect") =>
        /\ ssh_client = None
        /\ Live = {}
        /\ \A h \in 1..Len(handles) : handles[h].closes = 1

\* download_file raised inside the with-block after a successful connect()
C5_Witness ==
    /\ mpc = "done" /\ exc /\ call.op = "download_file" /\ outcome = "raised"
    /\ Len(handles) >= 1
    /\ handles[Len(handles)].connected /\ handles[Len(handles)].closes = 1
    /\ ssh_client = None

\* C6: after a download_file call that returned false or raised, no partial or
\* corrupt (written and not verified) file is left at the local path
C6_NoPartialLeft ==
    (Ended("download_file") /\ Failed) =>
        ~(local[path].exists /\ ~local[path].verified)

\* C7: download_file returns true only at the end of an attempt whose own stat
\* gave remote_size and after which the local file exists with that size; the
\* verified attempt is the last one
C7_TrueOnlyVerified ==
    /\ (Ended("download_file") /\ outcome = "returned" /\ ret = RetBool(TRUE)) =>
         /\ local[path].exists /\ local[path].size = remote_size
         /\ call.stat_attempt = attempt
         /\ Len(call.hist) = attempt
         /\ call.hist[attempt] = "verified"
    /\ call.op = "download_file" =>
         \A i \in 1..Len(call.hist) :
             call.hist[i] = "verified" =>
                 /\ i = Len(call.hist)
                 /\ pc = "idle" /\ outcome = "returned" /\ ret = RetBool(TRUE)

\* a second attempt was verified, for a remote file of size 1
C7_Witness ==
    /\ Ended("download_file") /\ ret = RetBool(TRUE) /\ attempt = 2
    /\ remote_size = 1 /\ local[path] = [exists |-> TRUE, size |-> 1,
                                         verified |-> TRUE]

\* C8: the remote file exists and every attempt ends in a size mismatch: with
\* max_retries = N >= 1 download_file transfers exactly N times, returns false
\* and leaves no local file; the file is gone after each mismatching attempt
C8_AllMismatch ==
    /\ (Ended("download_file") /\ max_retries >= 1 /\ call.precheck = "true"
          /\ AllHist("mismatch")) =>
         /\ Len(call.hist) = max_retries /\ call.transfers = max_retries
         /\ outcome = "returned" /\ ret = RetBool(FALSE)
         /\ ~local[path].exists
    /\ (call.op = "download_file" /\ pc = "dl_sleep"
          /\ call.hist[Len(call.hist)] = "mismatch") => ~local[path].exists

C8_Witness ==
    /\ Ended("download_file") /\ max_retries = 3
    /\ call.hist = <<"mismatch", "mismatch", "mismatch">>
    /\ ret = RetBool(FALSE)

\* C9: the remote file exists and the transfer raises on every attempt: with
\* max_retries = N >= 1 download_file makes exactly N attempts and raises
C9_AllTransfersRaise ==
    (Ended("download_file") /\ max_retries >= 1 /\ call.precheck = "true"
       /\ AllHist("xfer_exc")) =>
        /\ Len(call.hist) = max_retries /\ call.transfers = max_retries
        /\ outcome = "raised"

C9_Witness ==
    /\ Ended("download_file") /\ max_retries = 3
    /\ call.hist = <<"xfer_exc", "xfer_exc", "xfer_exc">>
    /\ outcome = "raised"

\* C10: remote_file_exists answered false: download_file has returned false at
\* once, with no stat for the size, no transfer, no attempt, no sleep and
\* nothing raised, whatever max_retries is
C10_AbsentReturnsFalse ==
    (call.op = "download_file" /\ call.precheck = "false") =>
        /\ pc = "idle" /\ outcome = "returned" /\ ret = RetBool(FALSE)
        /\ call.stats = 0 /\ call.transfers = 0 /\ call.sleeps = 0
        /\ call.hist = <<>>

\* the session is connected, the remote path is not a regular file
C10_Witness ==
    /\ Ended("download_file") /\ call.precheck = "false" /\ Connected
    /\ max_retries = 3 /\ call.opened = 1 /\ ret = RetBool(FALSE)

\* C11: remote_file_exists never raises; it answers true only when stat gave
\* a regular file, and false when the path is missing, is a directory or
\* another non-regular entry, when stat raised any error, when the channel
\* could not be opened and when the session has no handle
C11_ExistsNeverRaises ==
    /\ call.op = "remote_file_exists" => outcome # "raised"
    /\ Ended("remote_file_exists") =>
         /\ outcome = "returned"
         /\ call.rfe # "none"
         /\ ret = RetBool(call.rfe = "reg")
         /\ ssh_client = None => call.rfe = "no_handle"
    /\ call.precheck # "none" => (call.precheck = "true" <=> call.rfe = "reg")

\* stat raised an error that is no IOError: the answer is false
C11_Witness ==
    /\ Ended("remote_file_exists") /\ call.rfe = "error"
    /\ outcome = "returned" /\ ret = RetBool(FALSE)

\* C12: every channel remote_file_exists opened is closed when it returns,
\* whatever stat did; this holds for the call download_file makes too
C12_ExistsClosesChannel ==
    /\ Ended("remote_file_exists") =>
         (call.closed = call.opened /\ call.opened <= 1)
    /\ (call.op = "download_file" /\ call.precheck # "none"
          /\ call.hist = <<>> /\ pc \in {"idle", "dl_attempt"}) =>
         (call.closed = call.opened /\ call.opened <= 1)

\* stat raised a non-I/O error on an open channel, which was closed
C12_Witness ==
    /\ Ended("remote_file_exists") /\ call.rfe = "error"
    /\ call.opened = 1 /\ call.closed = 1

\* C13: with max_retries = N >= 1, a command that ends with a non-zero exit
\* status on every attempt is run exactly N times and execute_command then
\* raises; an attempt with a non-zero exit status never ends the call normally
C13_NonZeroRaises ==
    /\ (Ended("execute_command") /\ max_retries >= 1 /\ AllHist("nonzero")) =>
         (Len(call.hist) = max_retries /\ outcome = "raised")
    /\ (Ended("execute_command") /\ call.hist # <<>>
          /\ call.hist[Len(call.hist)] = "nonzero") => outcome = "raised"

C13_Witness ==
    /\ Ended("execute_command") /\ max_retries = 3 /\ outcome = "raised"
    /\ call.hist = <<"nonzero", "nonzero", "nonzero">>

\* t is raw without its leading and trailing blanks
IsTrimOf(t, raw) ==
    /\ t # <<>> => (t[1] # " " /\ t[Len(t)] # " ")
    /\ \E i \in 0..Len(raw), j \in 0..Len(raw) :
         /\ i + Len(t) + j = Len(raw)
         /\ \A k \in 1..i : raw[k] = " "
         /\ \A k \in 1..Len(t) : raw[i + k] = t[k]
         /\ \A k \in 1..j : raw[i + Len(t) + k] = " "

\* C14: the first attempt with exit status 0 ends execute_command, with or
\* without stderr output, and no attempt follows it; the call returns stdout
\* without its leading and trailing blanks, or None when nothing is left
C14_FirstZeroReturns ==
    /\ call.op = "execute_command" =>
         \A i \in 1..Len(call.hist) :
             call.hist[i] = "ok" =>
                 (i = Len(call.hist) /\ pc = "idle" /\ outcome = "returned")
    /\ (Ended("execute_command") /\ outcome = "returned" /\ call.hist # <<>>) =>
         /\ call.hist[Len(call.hist)] = "ok"
         /\ \/ ret = RetNone /\ IsTrimOf(<<>>, call.out)
            \/ ret.kind = "str" /\ ret.s # <<>> /\ ret = RetStr(ret.s)
                 /\ IsTrimOf(ret.s, call.out)

\* the second attempt ended with status 0, stderr output and stdout " ok "
C14_Witness ==
    /\ Ended("execute_command") /\ outcome = "returned" /\ attempt = 2
    /\ call.stderr /\ call.out = <<" ", "o", "k", " ">>
    /\ ret = RetStr(<<"o", "k">>)

\* C15: in main's batch a download_file that returns false does not end the
\* batch: the body ends normally only after download_file was called for
\* every side, and success then says that every side's file was downloaded
\* and verified; a download_file that raises ends the batch at that side and
\* the exception leaves main
Downloaded(p) == local[p].exists /\ local[p].verified

C15_BatchContinues ==
    (mpc \in {"exit", "done"} /\ call.op = "download_file") =>
        /\ ~exc =>
             /\ outcome = "returned" /\ side = NumSides
             /\ success <=> \A p \in Sides : Downloaded(p)
        /\ outcome = "raised" =>
             /\ exc
             /\ \A p \in Sides : p > side => local[p] = NoFile
        /\ exc => outcome = "raised"

\* the first download returned false, the second was made and verified
C15_Witness ==
    /\ mpc = "done" /\ ~exc /\ call.op = "download_file" /\ side = NumSides
    /\ ~Downloaded(1) /\ Downloaded(NumSides) /\ ret = RetBool(TRUE)
    /\ ~success

\* C16: during every retry sleep inside connect() the session holds no handle
C16_NoHandleDuringSleep == pc = "connect_sleep" => ssh_client = None

\* C17: download_file has used up its attempts without a verified one: it
\* raised exactly when the last attempt ended with an exception, and returned
\* false exactly when the last attempt failed verification, whatever the
\* earlier attempts did
LastHist == call.hist[Len(call.hist)]

C17_LastAttemptDecides ==
    (Ended("download_file") /\ call.hist # <<>> /\ LastHist # "verified") =>
        /\ Len(call.hist) = max_retries
        /\ outcome = "raised" <=> LastHist \in {"stat_exc", "xfer_exc"}
        /\ (outcome = "returned" /\ ret = RetBool(FALSE))
             <=> LastHist \in {"mismatch", "missing"}

\* exceptions on the earlier attempts, a size mismatch on the last: false
C17_Witness ==
    /\ Ended("download_file") /\ max_retries = 3
    /\ call.hist = <<"xfer_exc", "stat_exc", "mismatch">>
    /\ outcome = "returned" /\ ret = RetBool(FALSE)

\* C18: in connect(), execute_command() and download_file() one sleep of
\* retry_delay follows each failed attempt but the last: while the call runs
\* there were as many sleeps as ended attempts, a call that ended after
\* a >= 1 attempts slept a - 1 times, and every sleep lasted retry_delay
Retrying == call.op \in {"connect", "execute_command", "download_file"}

C18_SleepsBetweenAttempts ==
    Retrying =>
        /\ call.slept = call.sleeps * RetryDelay
        /\ pc # "idle" => call.sleeps = Len(call.hist)
        /\ (pc = "idle" /\ call.hist # <<>>) => call.sleeps = Len(call.hist) - 1
        /\ (pc = "idle" /\ call.hist = <<>>) => call.sleeps = 0
        /\ (pc \in {"connect_sleep", "exec_sleep", "dl_sleep"}) =>
             (call.hist # <<>> /\ LastHist \notin {"ok", "verified"}
                /\ attempt < max_retries)

\* three failed attempts of download_file, two sleeps
C18_Witness ==
    /\ Ended("download_file") /\ Len(call.hist) = 3 /\ call.sleeps = 2
    /\ call.slept = 2 * RetryDelay /\ outcome = "raised"

\* C19: for every max_retries, 0 included, connect() returns normally only
\* with the session Connected, and execute_command() returns normally only
\* after an attempt ran the command with exit status 0
C19_ReturnMeansSuccess ==
    /\ (Ended("connect") /\ outcome = "returned") => Connected
    /\ (Ended("execute_command") /\ outcome = "returned") =>
         (call.hist # <<>> /\ LastHist = "ok")

\* C20: every channel download_file opened is closed when it returns or
\* raises, also when a stat of the retry loop raised
C20_DownloadClosesChannels ==
    Ended("download_file") => call.closed = call.opened

====
